---- MODULE Spec2Model ----
(***************************************************************************)
(* Model of weather-sensor.ino: a battery powered MySensors node that      *)
(* samples an AM2320 temperature/humidity probe once per cycle, reports    *)
(* changed values, polls the gateway for configuration and reset commands, *)
(* watches the battery gauge and restarts itself every                     *)
(* RESET_AFTER_N_CYCLE cycles.                                             *)
(*                                                                         *)
(* The sketch is single threaded.  loop() is modelled one call at a time   *)
(* (pc names the next call of loop(), or the library call the sketch is    *)
(* blocked in).  receive() is run by the library while the sketch waits in *)
(* wait(1000).  `jmp 0` re-enters the C start-up code, which reloads .data *)
(* and clears .bss, so a restart re-creates the state of Init.             *)
(***************************************************************************)
EXTENDS Integers, Sequences, FiniteSets, TLC

\* ---------------------------------------------------------------- constants of the sketch
DEFAULT_CYCLE_DURATION == 600000
DEFAULT_FORCE_SEND_AFTER_N_CYCLE == 3
RESET_AFTER_N_CYCLE == 72
SEND_BATTERY_LOW_AFTER_N_CYCLE == 3
BATTERY_LOW_LIMIT == 10
DHT_MINIMUM_SAMPLING_PERIOD == 2000
POLL_WAIT == 1000
CHILD_VALUE_ID_HUM == 0
CHILD_VALUE_ID_TEMP == 1
CHILD_RESET_ID == 2
CHILD_CONFIG_ID == 3

\* widths of the C integer types
UINT8 == 256
UINT16 == 65536

\* ---------------------------------------------------------------- bounds of the environment
\* probe samples are 0..MaxProbe (tenths of a unit, as the AM2320 reports them)
MaxProbe == 1
\* battery gauge readings are BATTERY_LOW_LIMIT - 1 .. BATTERY_LOW_LIMIT - 1 + BatterySpan
BatterySpan == 2
\* V_VAR2 payloads are 0..MaxCycleNPayload, and two that do not fit uint16_t
MaxCycleNPayload == 2
\* Spec follows the node for MaxCycles cycles after each boot
MaxCycles == 6

ProbeValues == 0..MaxProbe
BatteryLevels == (BATTERY_LOW_LIMIT - 1)..(BATTERY_LOW_LIMIT - 1 + BatterySpan)
CycleNPayloads == (0..MaxCycleNPayload) \cup {UINT16, UINT16 + 1}
DurationPayloads == {0, 1000}

\* a message of the gateway: child id, variable type and payload
Message(sensor, type, payload) == [sensor |-> sensor, type |-> type, payload |-> payload]

\* the messages the gateway may deliver while the node waits
Inbox ==
    {Message(CHILD_RESET_ID, "V_STATUS", p) : p \in {0, 1}}
    \cup {Message(CHILD_CONFIG_ID, "V_VAR1", p) : p \in DurationPayloads}
    \cup {Message(CHILD_CONFIG_ID, "V_VAR2", p) : p \in CycleNPayloads}
    \cup {Message(CHILD_CONFIG_ID, "V_STATUS", 1), Message(CHILD_RESET_ID, "V_VAR2", 1)}

\* What the node's surroundings may do.  levels: the readings of the battery
\* gauge; reads: the outcomes of dht.measure(); values: the probe samples; inbox:
\* the messages of the gateway; cycles: for how many cycles after a boot the
\* node is followed.
Surroundings ==
    [levels |-> BatteryLevels, reads |-> BOOLEAN, values |-> ProbeValues,
     inbox |-> Inbox, cycles |-> MaxCycles]

\* A node followed from boot to the watchdog restart: the probe reads a steady
\* value or fails, the battery is at the low limit or just below it, the gateway
\* answers the polls with a cycle duration, with a refused or an accepted cycle
\* number, with "no reset" or with the reset command.
LongRun ==
    [levels |-> {BATTERY_LOW_LIMIT - 1, BATTERY_LOW_LIMIT}, reads |-> BOOLEAN,
     values |-> {0},
     inbox |-> {Message(CHILD_CONFIG_ID, "V_VAR1", 1000),
                Message(CHILD_CONFIG_ID, "V_VAR2", 0),
                Message(CHILD_CONFIG_ID, "V_VAR2", 2),
                Message(CHILD_RESET_ID, "V_STATUS", 0),
                Message(CHILD_RESET_ID, "V_STATUS", 1)},
     cycles |-> RESET_AFTER_N_CYCLE]

\* MyMessage getters: the payload converted to the C type asked for
\* (the payloads of the model are below 2^31, which uint32_t holds unchanged)
getBool(message) == message.payload # 0
getULong(message) == message.payload
getUInt(message) == message.payload % UINT16

\* ---------------------------------------------------------------- state
VARIABLES
    CYCLE_DURATION,            \* static uint32_t, line 68
    FORCE_SEND_AFTER_N_CYCLE,  \* static uint16_t, line 71
    lastProbeValueTemp,        \* float, line 105
    lastProbeValueHum,         \* float, line 106
    cycleCptTemp,              \* uint16_t, line 107
    cycleCptHum,               \* uint16_t, line 108
    cycleCptReset,             \* uint16_t, line 109
    batteryLowCpt,             \* uint8_t, line 110
    pc,                        \* the next call of the sketch
    trace,                     \* observer: what the node did since the cycle began
    lowRun,                    \* observer: the low battery readings in a row
    unchangedTemp,             \* observer: cycles since the last temperature send
    unchangedHum,              \* observer: cycles since the last humidity send
    ticks,                     \* observer: calls of processReset() since setup()
    configLost,                \* observer: the configuration held when the node restarted
    lastMessage                \* observer: the message receive() handled last

globals == <<CYCLE_DURATION, FORCE_SEND_AFTER_N_CYCLE, lastProbeValueTemp,
             lastProbeValueHum, cycleCptTemp, cycleCptHum, cycleCptReset, batteryLowCpt>>
config == <<CYCLE_DURATION, FORCE_SEND_AFTER_N_CYCLE>>
channels == <<lastProbeValueTemp, lastProbeValueHum, cycleCptTemp, cycleCptHum>>
observers == <<lowRun, unchangedTemp, unchangedHum, ticks, configLost>>
vars == <<globals, pc, trace, observers, lastMessage>>

\* one observable step of the node
Ev(op, arg, val) == [op |-> op, arg |-> arg, val |-> val]

\* the globals as the C start-up code leaves them
StartUp ==
    /\ CYCLE_DURATION = DEFAULT_CYCLE_DURATION
    /\ FORCE_SEND_AFTER_N_CYCLE = DEFAULT_FORCE_SEND_AFTER_N_CYCLE
    /\ lastProbeValueTemp = 0
    /\ lastProbeValueHum = 0
    /\ cycleCptTemp = 0
    /\ cycleCptHum = 0
    /\ cycleCptReset = 0
    /\ batteryLowCpt = 0

\* NoWindow: no send of the channel since boot, or the window since that send is
\* broken by a failed read or by a change of FORCE_SEND_AFTER_N_CYCLE
NoWindow == 0 - 1

\* no restart since setup()
NoConfig == <<>>

\* no message handled in this wait
NoMessage == Message(-1, "none", 0)

Init ==
    /\ StartUp
    /\ pc = "setup"
    /\ trace = <<>>
    /\ lowRun = <<>>
    /\ unchangedTemp = NoWindow
    /\ unchangedHum = NoWindow
    /\ ticks = 0
    /\ configLost = NoConfig
    /\ lastMessage = NoMessage

\* ---------------------------------------------------------------- setup()
\* a loop() that starts with the probe
loopEntryWeather == "processWeather"

\* line 181: the first call of loop()
loopEntry == "processBattery"

\* line 168: force send at startup
setupCycleCptTemp == FORCE_SEND_AFTER_N_CYCLE

\* cycleCptHum is not assigned by setup()
setupCycleCptHum == cycleCptHum

setup ==
    /\ pc = "setup"
    /\ cycleCptTemp' = setupCycleCptTemp
    /\ cycleCptHum' = setupCycleCptHum
    /\ pc' = loopEntry
    /\ trace' = <<Ev("sleep", "ms", DHT_MINIMUM_SAMPLING_PERIOD)>>
    /\ lastMessage' = NoMessage
    /\ ticks' = 0
    /\ configLost' = NoConfig
    /\ UNCHANGED <<config, lastProbeValueTemp, lastProbeValueHum, cycleCptReset,
                   batteryLowCpt, lowRun, unchangedTemp, unchangedHum>>

\* ---------------------------------------------------------------- doRestart(true)
\* a restart that tells the gateway nothing
restartNoNotice == <<>>

\* line 276: before restart, set reset value to off
restartNotice == <<Ev("send", "V_STATUS", 0)>>

\* a configured cycle duration that outlives the restart
keptCycleDuration == CYCLE_DURATION

\* lines 68 and 71: the start-up code run by jmp 0 reloads the initialised data
reloadedCycleDuration == DEFAULT_CYCLE_DURATION
reloadedForceSendAfter == DEFAULT_FORCE_SEND_AFTER_N_CYCLE

\* send(messageReset.set(false)); cycleCptReset = 0; jmp 0
\* tr is what the cycle did before the restart
doRestart(tr) ==
    /\ trace' = tr \o restartNotice \o <<Ev("jmp", "0", 0)>>
    /\ configLost' = <<CYCLE_DURATION, FORCE_SEND_AFTER_N_CYCLE>>
    /\ CYCLE_DURATION' = reloadedCycleDuration
    /\ FORCE_SEND_AFTER_N_CYCLE' = reloadedForceSendAfter
    /\ lastProbeValueTemp' = 0
    /\ lastProbeValueHum' = 0
    /\ cycleCptTemp' = 0
    /\ cycleCptHum' = 0
    /\ cycleCptReset' = 0
    /\ batteryLowCpt' = 0
    /\ lowRun' = <<>>
    /\ unchangedTemp' = NoWindow
    /\ unchangedHum' = NoWindow
    /\ pc' = "setup"

\* ---------------------------------------------------------------- processBattery()
\* a count that a reading at or above the limit does not start again
lowCptKeptOnGoodReading(batteryLevel, cpt) ==
    IF batteryLevel < BATTERY_LOW_LIMIT THEN (cpt + 1) % UINT8 ELSE cpt

\* lines 397-402: the count of consecutive low readings after a reading
lowCptAfterReading(batteryLevel, cpt) ==
    IF batteryLevel < BATTERY_LOW_LIMIT THEN (cpt + 1) % UINT8 ELSE 0

\* line 404: battery low confirmed
batteryLowConfirmed(cpt) == cpt >= SEND_BATTERY_LOW_AFTER_N_CYCLE

\* a count that the confirmed low battery does not start again
lowCptKeptAfterConfirm(low, cpt) == cpt

\* line 405: the count starts again when the low battery is confirmed
lowCptAfterConfirm(low, cpt) == IF low THEN 0 ELSE cpt

\* a suspend that does not report the empty battery first
batteryLowSleepOnly == <<Ev("sleep", "interrupt", 0)>>

\* lines 405-412: the counter starts again, the level is reported empty, sleep
\* for ever (0 ms: no timer) until pin D3 changes
batteryLowActions == <<Ev("sendBatteryLevel", "empty", 0), Ev("sleep", "interrupt", 0)>>

\* the observer's run of low readings: a reading at or above the limit ends it,
\* and so does the reading that follows a reported low battery
IsLow(batteryLevel) == batteryLevel < BATTERY_LOW_LIMIT
RunEnded(run) == run # <<>> /\ run[Len(run)].low
LowRunAfter(run, batteryLevel, low) ==
    IF IsLow(batteryLevel)
    THEN Append(IF RunEnded(run) THEN <<>> ELSE run, [level |-> batteryLevel, low |-> low])
    ELSE <<>>

processBattery(env) ==
    /\ pc = "processBattery"
    /\ ticks < env.cycles
    /\ \E batteryLevel \in env.levels :
         LET cpt == lowCptAfterReading(batteryLevel, batteryLowCpt)
             low == batteryLowConfirmed(cpt)
         IN  /\ batteryLowCpt' = lowCptAfterConfirm(low, cpt)
             /\ trace' = <<Ev("sendBatteryLevel", "soc", batteryLevel)>>
                         \o (IF low THEN batteryLowActions ELSE <<>>)
             /\ pc' = IF low THEN "deepSleep" ELSE "processWeather"
             /\ lowRun' = LowRunAfter(lowRun, batteryLevel, low)
    /\ UNCHANGED <<config, channels, cycleCptReset, unchangedTemp, unchangedHum, ticks,
                   configLost, lastMessage>>

\* sleep(1, CHANGE, 0) returns only when the level of pin D3 changes
interrupt ==
    /\ pc = "deepSleep"
    /\ pc' = "processWeather"
    /\ trace' = Append(trace, Ev("wake", "interrupt", 0))
    /\ UNCHANGED <<globals, observers, lastMessage>>

\* ---------------------------------------------------------------- processWeather()
\* the result of dht.measure() ignored
measuredAlways(ok) == TRUE

\* line 304: the values are used only if dht.measure() succeeded
measured(ok) == ok

\* what dht.measure() returned
MeasureEv(ok) == Ev("measure", IF ok THEN "ok" ELSE "failed", 0)

\* a send decision that looks at the no-update counter alone
shouldSendWhenDue(probeValue, lastProbeValue, cycleCpt) ==
    cycleCpt = FORCE_SEND_AFTER_N_CYCLE

\* lines 321 and 342: send the probe value?
shouldSend(probeValue, lastProbeValue, cycleCpt) ==
    probeValue # lastProbeValue \/ cycleCpt = FORCE_SEND_AFTER_N_CYCLE

\* lines 324/332 and 345/353: the no-update counter after the decision
cycleCptAfter(sent, cycleCpt) == IF sent THEN 0 ELSE (cycleCpt + 1) % UINT16

\* lines 322 and 343
lastProbeValueAfter(sent, probeValue, lastProbeValue) ==
    IF sent THEN probeValue ELSE lastProbeValue

\* the polls in every cycle
nextAfterWeatherAlwaysPolls(r) == "processCheckCommandFromServer"

\* lines 184-189: the polls follow a cycle that sent a probe value
nextAfterWeather(r) == IF r THEN "processCheckCommandFromServer" ELSE "processReset"

\* the observer's count of cycles since the channel's last send
UnchangedAfter(sent, n) == IF sent THEN 0 ELSE IF n = NoWindow THEN NoWindow ELSE n + 1

processWeather(env) ==
    /\ pc = "processWeather"
    /\ \E ok \in env.reads, t \in env.values, h \in env.values :
         IF ~measured(ok)
         THEN /\ trace' = Append(trace, MeasureEv(ok))
              /\ pc' = nextAfterWeather(FALSE)
              /\ unchangedTemp' = NoWindow
              /\ unchangedHum' = NoWindow
              /\ UNCHANGED channels
         ELSE LET sendTemp == shouldSend(t, lastProbeValueTemp, cycleCptTemp)
                  sendHum == shouldSend(h, lastProbeValueHum, cycleCptHum)
              IN  /\ lastProbeValueTemp' = lastProbeValueAfter(sendTemp, t, lastProbeValueTemp)
                  /\ cycleCptTemp' = cycleCptAfter(sendTemp, cycleCptTemp)
                  /\ lastProbeValueHum' = lastProbeValueAfter(sendHum, h, lastProbeValueHum)
                  /\ cycleCptHum' = cycleCptAfter(sendHum, cycleCptHum)
                  /\ trace' = trace
                              \o <<MeasureEv(ok), Ev("read", "V_TEMP", t)>>
                              \o (IF sendTemp THEN <<Ev("send", "V_TEMP", t)>> ELSE <<>>)
                              \o <<Ev("read", "V_HUM", h)>>
                              \o (IF sendHum THEN <<Ev("send", "V_HUM", h)>> ELSE <<>>)
                  /\ pc' = nextAfterWeather(sendTemp \/ sendHum)
                  /\ unchangedTemp' = UnchangedAfter(sendTemp, unchangedTemp)
                  /\ unchangedHum' = UnchangedAfter(sendHum, unchangedHum)
    /\ UNCHANGED <<config, cycleCptReset, batteryLowCpt, lowRun, ticks, configLost,
                   lastMessage>>

\* ---------------------------------------------------------------- polls
processCheckCommandFromServer ==
    /\ pc = "processCheckCommandFromServer"
    /\ trace' = trace \o <<Ev("request", "V_VAR1", CHILD_CONFIG_ID),
                           Ev("request", "V_VAR2", CHILD_CONFIG_ID),
                           Ev("wait", "config", POLL_WAIT)>>
    /\ pc' = "waitConfig"
    /\ UNCHANGED <<globals, observers, lastMessage>>

processCheckResetFromServer ==
    /\ pc = "processCheckResetFromServer"
    /\ trace' = trace \o <<Ev("request", "V_STATUS", CHILD_RESET_ID),
                           Ev("wait", "reset", POLL_WAIT)>>
    /\ pc' = "waitReset"
    /\ UNCHANGED <<globals, observers, lastMessage>>

\* a loop() that asks for the configuration only
afterWaitNoResetPoll(waiting) == "processReset"

\* lines 186-192: the call of loop() that follows the poll that waited
afterWait(waiting) ==
    IF waiting = "waitConfig" THEN "processCheckResetFromServer" ELSE "processReset"

\* wait(1000) returns
waitElapsed ==
    /\ pc \in {"waitConfig", "waitReset"}
    /\ pc' = afterWait(pc)
    /\ lastMessage' = NoMessage
    /\ UNCHANGED <<globals, trace, observers>>

\* ---------------------------------------------------------------- receive()
\* lines 207-210
isResetMessage(message) ==
    message.sensor = CHILD_RESET_ID /\ message.type = "V_STATUS"

\* a check of the variable type alone
isConfigMessageOfAnyChild(message) == message.type \in {"V_VAR1", "V_VAR2"}

\* lines 222-225
isConfigMessage(message) ==
    message.sensor = CHILD_CONFIG_ID /\ message.type \in {"V_VAR1", "V_VAR2"}

\* a check that lets 0 through
acceptConfigFromZero(v) == v >= 0

\* lines 232 and 244
acceptConfig(v) == v > 0

\* lines 230-240
cycleDurationAfter(message) ==
    IF message.type = "V_VAR1" /\ acceptConfig(getULong(message))
    THEN getULong(message) ELSE CYCLE_DURATION

\* lines 242-252
forceSendAfter(message) ==
    IF message.type = "V_VAR2" /\ acceptConfig(getUInt(message))
    THEN getUInt(message) ELSE FORCE_SEND_AFTER_N_CYCLE

receive(message) ==
    /\ pc \in {"waitConfig", "waitReset"}
    /\ lastMessage' = message
    /\ IF isResetMessage(message)
       THEN IF getBool(message)
            THEN doRestart(trace) /\ UNCHANGED ticks
            ELSE UNCHANGED <<globals, pc, trace, observers>>
       ELSE IF isConfigMessage(message)
            THEN /\ CYCLE_DURATION' = cycleDurationAfter(message)
                 /\ FORCE_SEND_AFTER_N_CYCLE' = forceSendAfter(message)
                 /\ IF FORCE_SEND_AFTER_N_CYCLE' # FORCE_SEND_AFTER_N_CYCLE
                    THEN unchangedTemp' = NoWindow /\ unchangedHum' = NoWindow
                    ELSE UNCHANGED <<unchangedTemp, unchangedHum>>
                 /\ UNCHANGED <<channels, cycleCptReset, batteryLowCpt, pc, trace,
                                lowRun, ticks, configLost>>
            ELSE UNCHANGED <<globals, pc, trace, observers>>

\* ---------------------------------------------------------------- processReset()
\* a tick that does not count
cycleCptResetNotCounted(cpt) == cpt

\* line 424: cycleCptReset++
cycleCptResetAfterTick(cpt) == (cpt + 1) % UINT16

\* a comparison that lets one more cycle pass
resetDueLate(cpt) == cpt > RESET_AFTER_N_CYCLE

\* line 425
resetDue(cpt) == cpt >= RESET_AFTER_N_CYCLE

processReset ==
    /\ pc = "processReset"
    /\ ticks' = ticks + 1
    /\ LET cpt == cycleCptResetAfterTick(cycleCptReset)
       IN  IF resetDue(cpt)
           THEN /\ doRestart(Append(trace, Ev("processReset", "restart", cpt)))
                /\ UNCHANGED lastMessage
           ELSE /\ cycleCptReset' = cpt
                /\ trace' = Append(trace, Ev("processReset", "continue", cpt))
                /\ pc' = "sleep"
                /\ UNCHANGED <<config, channels, batteryLowCpt, lowRun,
                               unchangedTemp, unchangedHum, configLost, lastMessage>>

\* ---------------------------------------------------------------- loop(): sleep(CYCLE_DURATION)
\* a sleep for the compiled cycle duration, whatever the gateway configured
sleepDurationCompiled == DEFAULT_CYCLE_DURATION

\* line 198: the argument of sleep()
sleepDuration == CYCLE_DURATION

sleep ==
    /\ pc = "sleep"
    /\ trace' = Append(trace, Ev("sleep", "ms", sleepDuration))
    /\ pc' = loopEntry
    /\ UNCHANGED <<globals, observers, lastMessage>>

NextIn(env) ==
    \/ setup
    \/ processBattery(env)
    \/ interrupt
    \/ processWeather(env)
    \/ processCheckCommandFromServer
    \/ processCheckResetFromServer
    \/ waitElapsed
    \/ \E message \in env.inbox : receive(message)
    \/ processReset
    \/ sleep

Next == NextIn(Surroundings)
NextLongRun == NextIn(LongRun)

\* every behaviour of the node in its first MaxCycles cycles after a boot
Spec == Init /\ [][Next]_vars

\* the node from boot to the watchdog restart
SpecLongRun == Init /\ [][NextLongRun]_vars

\* ---------------------------------------------------------------- reading the trace
Has(tr, e) == \E i \in 1..Len(tr) : tr[i] = e
Count(tr, op, arg) == Cardinality({i \in 1..Len(tr) : tr[i].op = op /\ tr[i].arg = arg})
Did(tr, op, arg) == Count(tr, op, arg) > 0
\* the value of the first event op/arg of tr
ValueOf(tr, op, arg) == tr[CHOOSE i \in 1..Len(tr) : tr[i].op = op /\ tr[i].arg = arg].val

\* the step is processWeather() with a successful dht.measure()
WeatherStepOk == pc = "processWeather" /\ Did(trace', "measure", "ok")
\* the step is processWeather() with a failed dht.measure()
WeatherStepFailed == pc = "processWeather" /\ Did(trace', "measure", "failed")

\* ---------------------------------------------------------------- C1
\* C1: on every cycle with a successful probe read, each channel's value is
\* transmitted if and only if the sample differs from the last reported value or
\* the channel's no-update counter is at least FORCE_SEND_AFTER_N_CYCLE, also
\* after the gateway lowered FORCE_SEND_AFTER_N_CYCLE below the counter.
C1_SendIffChangedOrDue ==
    [][WeatherStepOk =>
         /\ Did(trace', "send", "V_TEMP")
              <=> \/ ValueOf(trace', "read", "V_TEMP") # lastProbeValueTemp
                  \/ cycleCptTemp >= FORCE_SEND_AFTER_N_CYCLE
         /\ Did(trace', "send", "V_HUM")
              <=> \/ ValueOf(trace', "read", "V_HUM") # lastProbeValueHum
                  \/ cycleCptHum >= FORCE_SEND_AFTER_N_CYCLE]_vars

\* ---------------------------------------------------------------- C2
\* C2: when the probe read succeeds and a channel's sample differs from its last
\* reported value, that sample is sent in this cycle, becomes the last reported
\* value, and the channel's no-update counter is reset to 0.
C2_ChangedValueIsSent ==
    [][WeatherStepOk =>
         /\ ValueOf(trace', "read", "V_TEMP") # lastProbeValueTemp
              => /\ Has(trace', Ev("send", "V_TEMP", ValueOf(trace', "read", "V_TEMP")))
                 /\ lastProbeValueTemp' = ValueOf(trace', "read", "V_TEMP")
                 /\ cycleCptTemp' = 0
         /\ ValueOf(trace', "read", "V_HUM") # lastProbeValueHum
              => /\ Has(trace', Ev("send", "V_HUM", ValueOf(trace', "read", "V_HUM")))
                 /\ lastProbeValueHum' = ValueOf(trace', "read", "V_HUM")
                 /\ cycleCptHum' = 0]_vars

\* in the first cycle after boot the humidity 1 differs from the 0 the start-up
\* code left, the counter is not due, and the value has been sent
C2_Witness ==
    /\ pc = "processCheckCommandFromServer"
    /\ ticks = 0
    /\ Has(trace, Ev("read", "V_HUM", 1))
    /\ Has(trace, Ev("send", "V_HUM", 1))
    /\ lastProbeValueHum = 1
    /\ cycleCptHum = 0

\* ---------------------------------------------------------------- C3
\* C3: with successful reads and no configuration change, when a channel's
\* sample stays equal to the last reported value after a send, a send is issued
\* on the FORCE_SEND_AFTER_N_CYCLE-th such cycle, so that two sends of a channel
\* are never more than FORCE_SEND_AFTER_N_CYCLE cycles apart.
C3_ForcedSendEveryN ==
    [][WeatherStepOk =>
         /\ ( /\ unchangedTemp # NoWindow
              /\ unchangedTemp + 1 = FORCE_SEND_AFTER_N_CYCLE
              /\ ValueOf(trace', "read", "V_TEMP") = lastProbeValueTemp )
              => Did(trace', "send", "V_TEMP")
         /\ ( /\ unchangedHum # NoWindow
              /\ unchangedHum + 1 = FORCE_SEND_AFTER_N_CYCLE
              /\ ValueOf(trace', "read", "V_HUM") = lastProbeValueHum )
              => Did(trace', "send", "V_HUM")]_vars

\* ---------------------------------------------------------------- C4
\* C4: in the first cycle after a boot, when the probe read succeeds, a value
\* is sent for the temperature and for the humidity, whatever the samples are.
C4_ColdStartSendsEveryChannel ==
    [][WeatherStepOk /\ ticks = 0 =>
         Did(trace', "send", "V_TEMP") /\ Did(trace', "send", "V_HUM")]_vars

\* ---------------------------------------------------------------- C5
\* the step is processBattery()
BatteryStep == pc = "processBattery" /\ pc' # "processBattery"
\* the low readings in a row before this reading: since boot, since the last
\* reading at or above the limit, or since the last Low event
LowsBefore == IF RunEnded(lowRun) THEN <<>> ELSE lowRun
\* the Low event: the battery is reported empty and the node suspends for ever
LowEvent ==
    /\ Has(trace', Ev("sendBatteryLevel", "empty", 0))
    /\ Has(trace', Ev("sleep", "interrupt", 0))
    /\ pc' = "deepSleep"
NoLowEvent ==
    /\ ~Did(trace', "sendBatteryLevel", "empty")
    /\ ~Did(trace', "sleep", "interrupt")
    /\ pc' = "processWeather"

\* C5: the Low event (battery reported empty, then the indefinite suspend) is
\* emitted on a battery reading if and only if that reading is the third in a
\* row below 10 since boot, since the last reading of 10 or more, or since the
\* last Low event; a reading of 10 or more sets the streak to 0.
C5_LowOnThirdLowReading ==
    [][BatteryStep =>
         LET level == ValueOf(trace', "sendBatteryLevel", "soc")
             third == level < 10 /\ Len(LowsBefore) = 2
         IN  /\ IF third THEN LowEvent ELSE NoLowEvent
             /\ level >= 10 => batteryLowCpt' = 0
             /\ level < 10 /\ ~third => batteryLowCpt' = Len(LowsBefore) + 1]_vars

\* the sixth reading after a boot is the one that emits Low, as after 9 9 11 9 9 9
C5_Witness ==
    /\ pc = "deepSleep"
    /\ ticks = 5
    /\ Len(lowRun) = 3
    /\ \A i \in 1..3 : lowRun[i].level = 9

\* ---------------------------------------------------------------- C6
\* C6: the node enters the indefinite suspend only from processBattery() on the
\* Low signal (three low readings in a row), it reports the battery level 0
\* before it suspends, the suspend has no timer (0 ms), and while suspended the
\* node does nothing until the external interrupt wakes it.
C6_LowReportsEmptyThenSuspends ==
    [][/\ pc' = "deepSleep" /\ pc # "deepSleep"
          => /\ pc = "processBattery"
             /\ Len(lowRun') = 3
             /\ \A i \in 1..3 : lowRun'[i].level < 10
             /\ Len(trace') = 3
             /\ trace'[2] = Ev("sendBatteryLevel", "empty", 0)
             /\ trace'[3] = Ev("sleep", "interrupt", 0)
       /\ pc = "deepSleep"
          => /\ trace' = Append(trace, Ev("wake", "interrupt", 0))
             /\ UNCHANGED globals]_vars

\* suspended after the empty battery was reported
C6_Witness ==
    /\ pc = "deepSleep"
    /\ trace = <<Ev("sendBatteryLevel", "soc", 9), Ev("sendBatteryLevel", "empty", 0),
                 Ev("sleep", "interrupt", 0)>>

\* ---------------------------------------------------------------- C7
\* the step is processReset()
ResetStep == pc = "processReset" /\ pc' # "processReset"

\* C7: counted from boot, the calls 1 to 71 of processReset() do not restart
\* the node and the call 72 does; the restart is taken at once, and the sleep
\* that ends the cycle is not executed.
C7_WatchdogRestartsOn72ndTick ==
    [][ResetStep =>
         /\ ticks' <= 72
         /\ ticks' < 72 => pc' = "sleep" /\ ~Did(trace', "jmp", "0")
         /\ ticks' = 72 => /\ pc' = "setup"
                           /\ trace'[Len(trace')] = Ev("jmp", "0", 0)
                           /\ ~Did(trace', "sleep", "ms")]_vars

\* restarted by the call 72
C7_Witness ==
    /\ pc = "setup"
    /\ ticks = 72
    /\ trace[Len(trace)] = Ev("jmp", "0", 0)

\* ---------------------------------------------------------------- C8
\* C8: a configuration message with the value 0, for the cycle duration (V_VAR1)
\* or for the cycle number (V_VAR2), leaves CYCLE_DURATION,
\* FORCE_SEND_AFTER_N_CYCLE and the rest of the node's state as they were; so
\* both stay above 0 in every state.
C8_ZeroConfigIsIgnored ==
    [][/\ CYCLE_DURATION' > 0
       /\ FORCE_SEND_AFTER_N_CYCLE' > 0
       /\ \A type \in {"V_VAR1", "V_VAR2"} :
            lastMessage' = Message(3, type, 0) /\ lastMessage # lastMessage'
              => UNCHANGED <<globals, pc, trace>>]_vars

\* a refused cycle number, the values set before are still held
C8_Witness ==
    /\ lastMessage = Message(3, "V_VAR2", 0)
    /\ FORCE_SEND_AFTER_N_CYCLE = 2
    /\ CYCLE_DURATION = 1000

\* ---------------------------------------------------------------- C9
\* C9: in a cycle whose probe read fails, the last reported values and the
\* no-update counters stay as they were, no probe value is sent, the read is
\* tried once, and the cycle goes on to processReset() and to the sleep.
C9_FailedReadSkipsReport ==
    [][/\ WeatherStepFailed
          => /\ UNCHANGED channels
             /\ trace' = Append(trace, Ev("measure", "failed", 0))
             /\ pc' = "processReset"
       /\ Did(trace, "measure", "failed") /\ ResetStep /\ ticks' < 72
          => /\ pc' = "sleep"
             /\ UNCHANGED channels
       /\ Did(trace, "measure", "failed") /\ pc = "sleep" /\ pc' # "sleep"
          => /\ trace' = Append(trace, Ev("sleep", "ms", CYCLE_DURATION))
             /\ Count(trace', "measure", "failed") = 1
             /\ ~Did(trace', "measure", "ok")
             /\ ~Did(trace', "send", "V_TEMP")
             /\ ~Did(trace', "send", "V_HUM")
             /\ pc' = "processBattery"]_vars

\* the first cycle after a boot ended with its sleep after a failed read
C9_Witness ==
    /\ pc = "processBattery"
    /\ ticks = 1
    /\ Did(trace, "measure", "failed")
    /\ Did(trace, "sleep", "ms")
    /\ cycleCptTemp = 3
    /\ unchangedTemp = NoWindow

\* ---------------------------------------------------------------- C10
PollsOf(tr) ==
    <<Count(tr, "request", "V_VAR1"), Count(tr, "request", "V_VAR2"),
      Count(tr, "wait", "config"), Count(tr, "request", "V_STATUS"),
      Count(tr, "wait", "reset")>>

\* C10 as stated: every cycle that reaches its sleep issued exactly one
\* configuration poll and exactly one reset poll, whether or not a probe value
\* was sent and whether or not the probe read succeeded.
C10_PollsEveryCycle ==
    pc = "sleep" => PollsOf(trace) = <<1, 1, 1, 1, 1>>

\* C10 amended: a cycle that reaches its sleep issued exactly one configuration
\* poll and exactly one reset poll if it sent a probe value, and no poll if it
\* sent none.
C10_PollsOnceAfterSend ==
    pc = "sleep" =>
        IF Did(trace, "send", "V_TEMP") \/ Did(trace, "send", "V_HUM")
        THEN PollsOf(trace) = <<1, 1, 1, 1, 1>>
        ELSE PollsOf(trace) = <<0, 0, 0, 0, 0>>

\* a cycle that sent the humidity alone and polled once
C10_Witness ==
    /\ pc = "sleep"
    /\ Did(trace, "send", "V_HUM")
    /\ ~Did(trace, "send", "V_TEMP")
    /\ PollsOf(trace) = <<1, 1, 1, 1, 1>>

\* ---------------------------------------------------------------- C11
\* the step is the sleep that ends the cycle
SleepStep == pc = "sleep" /\ pc' # "sleep"

\* C11: every cycle that reaches its sleep suspends exactly once, for the
\* CYCLE_DURATION held at that moment, whatever happened before in the cycle
\* (failed read, nothing sent, something sent, unanswered polls, a configuration
\* update); the sleep changes nothing else and the next cycle begins.
C11_SleepsOnceForCycleDuration ==
    [][SleepStep =>
         /\ trace' = Append(trace, Ev("sleep", "ms", CYCLE_DURATION))
         /\ Count(trace', "sleep", "ms") = 1
         /\ pc' = "processBattery"
         /\ UNCHANGED globals]_vars

\* the first cycle after a boot slept for the duration the gateway set in it
C11_Witness ==
    /\ pc = "processBattery"
    /\ ticks = 1
    /\ CYCLE_DURATION = 1000
    /\ FORCE_SEND_AFTER_N_CYCLE = 2
    /\ trace[Len(trace)] = Ev("sleep", "ms", 1000)

\* ---------------------------------------------------------------- C12
\* the position of the first event op of tr (0: none)
FirstOf(tr, op) ==
    IF \E i \in 1..Len(tr) : tr[i].op = op
    THEN CHOOSE i \in 1..Len(tr) : tr[i].op = op /\ \A j \in 1..(i - 1) : tr[j].op # op
    ELSE 0

\* the cycle ended with its sleep
CycleSlept == pc = "processBattery" /\ ticks > 0

Rank(e) ==
    CASE e.op = "sendBatteryLevel" -> 1
      [] e.op = "sleep" /\ e.arg = "interrupt" -> 1
      [] e.op = "wake" -> 1
      [] e.op = "measure" -> 2
      [] e.op \in {"read", "send"} /\ e.arg = "V_TEMP" -> 3
      [] e.op \in {"read", "send"} /\ e.arg = "V_HUM" -> 4
      [] e.op = "request" /\ e.arg \in {"V_VAR1", "V_VAR2"} -> 5
      [] e.op = "wait" /\ e.arg = "config" -> 5
      [] e.op = "request" /\ e.arg = "V_STATUS" -> 6
      [] e.op = "wait" /\ e.arg = "reset" -> 6
      [] e.op = "processReset" -> 7
      [] e.op = "sleep" /\ e.arg = "ms" -> 8
      [] OTHER -> 9

RestartStep == pc # "setup" /\ pc' = "setup"

\* C13: the configuration of the gateway does not outlive a restart: after any
\* restart, by the watchdog or by the reset command, CYCLE_DURATION is 600000
\* and FORCE_SEND_AFTER_N_CYCLE is 3 again, cycleCptReset and batteryLowCpt are
\* 0, whatever the gateway had set before; setup() leaves them so.
C13_RestartForgetsConfig ==
    [][RestartStep \/ (pc = "setup" /\ pc' # "setup") =>
         /\ CYCLE_DURATION' = 600000
         /\ FORCE_SEND_AFTER_N_CYCLE' = 3
         /\ cycleCptReset' = 0
         /\ batteryLowCpt' = 0]_vars

\* restarted by the watchdog with a configured cycle duration and cycle number
C13_Witness ==
    /\ pc = "setup"
    /\ ticks = 72
    /\ configLost = <<1000, 2>>
    /\ CYCLE_DURATION = 600000
    /\ FORCE_SEND_AFTER_N_CYCLE = 3

\* ---------------------------------------------------------------- C14
\* C14: in every reachable state, under any interleaving of cycles and accepted
\* configuration updates, the no-update counter of each channel is at most the
\* current FORCE_SEND_AFTER_N_CYCLE, and batteryLowCpt is at most 3, at most 2
\* between two calls of processBattery().
C14_CountersBounded ==
    /\ cycleCptTemp <= FORCE_SEND_AFTER_N_CYCLE
    /\ cycleCptHum <= FORCE_SEND_AFTER_N_CYCLE
    /\ batteryLowCpt <= 3
    /\ pc # "deepSleep" => batteryLowCpt <= 2

\* ---------------------------------------------------------------- C15
\* C15: cycleCptReset goes up by exactly 1 in every cycle that runs to its end,
\* whatever else happened in the cycle (failed read, nothing sent, configuration
\* update, low readings of the battery); no other step changes it, it goes down
\* only by a restart, and it is below 72 when a cycle begins; so the node
\* restarts at the latest in the 72nd cycle after a boot.
C15_TickEveryCycle ==
    [][/\ ResetStep /\ pc' # "setup" => cycleCptReset' = cycleCptReset + 1
       /\ ResetStep /\ pc' = "setup" => cycleCptReset = 71 /\ cycleCptReset' = 0
       /\ ~ResetStep /\ ~RestartStep => cycleCptReset' = cycleCptReset
       /\ cycleCptReset' < cycleCptReset => RestartStep /\ Did(trace', "jmp", "0")
       /\ pc' = "processBattery" => cycleCptReset' < 72 /\ cycleCptReset' = ticks'
       /\ ticks' <= 72]_vars

\* the 72nd cycle after a boot begins, the one before had a failed read
C15_Witness ==
    /\ pc = "processBattery"
    /\ cycleCptReset = 71
    /\ ticks = 71
    /\ Did(trace, "measure", "failed")
    /\ CYCLE_DURATION = 1000

\* ---------------------------------------------------------------- C16
\* the step is receive() of the message m
Received(m) == lastMessage' = m /\ lastMessage # m

\* the state a configuration message must not touch
accumulated == <<channels, batteryLowCpt, cycleCptReset>>

\* C16: an accepted configuration message changes the parameter it is for and
\* nothing else: V_VAR1 with v > 0 sets CYCLE_DURATION to v and leaves
\* FORCE_SEND_AFTER_N_CYCLE, V_VAR2 with v > 0 (v the payload as uint16_t) sets
\* FORCE_SEND_AFTER_N_CYCLE to v and leaves CYCLE_DURATION; neither changes the
\* last reported values, the no-update counters, batteryLowCpt or cycleCptReset.
\* A message that is neither a reset command nor a configuration message changes
\* nothing.
C16_ConfigChangesOnlyItsParameter ==
    [][\A m \in Inbox : Received(m) =>
         /\ m.sensor = 3 /\ m.type = "V_VAR1" /\ m.payload > 0
              => /\ CYCLE_DURATION' = m.payload
                 /\ UNCHANGED <<FORCE_SEND_AFTER_N_CYCLE, accumulated, pc, trace>>
         /\ m.sensor = 3 /\ m.type = "V_VAR2" /\ m.payload % 65536 > 0
              => /\ FORCE_SEND_AFTER_N_CYCLE' = m.payload % 65536
                 /\ UNCHANGED <<CYCLE_DURATION, accumulated, pc, trace>>
         /\ ~(m.sensor = 2 /\ m.type = "V_STATUS")
            /\ ~(m.sensor = 3 /\ m.type \in {"V_VAR1", "V_VAR2"})
              => UNCHANGED <<globals, pc, trace>>]_vars

\* the cycle number was set to 2 in the second cycle after a boot, the cycle
\* duration and the counters are as they were
C16_Witness ==
    /\ pc = "waitConfig"
    /\ lastMessage = Message(3, "V_VAR2", 2)
    /\ FORCE_SEND_AFTER_N_CYCLE = 2
    /\ CYCLE_DURATION = 600000
    /\ cycleCptTemp = 1
    /\ cycleCptHum = 0
    /\ cycleCptReset = 1

\* ---------------------------------------------------------------- C17
\* the cycle is over: it slept, or the node restarted
CycleOver == pc = "sleep" \/ (pc = "setup" /\ Did(trace, "jmp", "0"))

\* a probe value was sent in the cycle
SentValue(tr) == Did(tr, "send", "V_TEMP") \/ Did(tr, "send", "V_HUM")

\* the configuration poll, and after it the reset poll
ConfigPolled(tr) ==
    /\ Count(tr, "request", "V_VAR1") = 1
    /\ Count(tr, "request", "V_VAR2") = 1
    /\ Count(tr, "wait", "config") = 1
ResetPolled(tr) ==
    /\ Count(tr, "request", "V_STATUS") = 1
    /\ Count(tr, "wait", "reset") = 1
    /\ \A i, j \in 1..Len(tr) :
         tr[i] = Ev("wait", "config", 1000) /\ tr[j] = Ev("request", "V_STATUS", 2) => i < j
NotPolled(tr) == ~Did(tr, "request", "V_VAR1") /\ ~Did(tr, "request", "V_VAR2")
                 /\ ~Did(tr, "request", "V_STATUS") /\ ~Did(tr, "wait", "config")
                 /\ ~Did(tr, "wait", "reset")

\* C17 as stated: the configuration poll and the reset poll are issued in a
\* cycle if and only if a value of the temperature or of the humidity was sent
\* in that cycle, the configuration poll before the reset poll; a cycle with a
\* failed read or without a send issues no poll.
C17_PollsIffSent ==
    CycleOver =>
        IF SentValue(trace)
        THEN ConfigPolled(trace) /\ ResetPolled(trace)
        ELSE NotPolled(trace)

\* the node was restarted by a reset command while it waited for the
\* configuration
RestartedInConfigWait ==
    /\ pc = "setup"
    /\ Did(trace, "jmp", "0")
    /\ ~Did(trace, "processReset", "restart")
    /\ ~Did(trace, "request", "V_STATUS")

\* C17 amended: the configuration poll is issued in a cycle if and only if a
\* value was sent in that cycle; the reset poll is issued after it, unless a
\* reset command received during the wait of the configuration poll restarted
\* the node; a cycle with a failed read or without a send issues no poll.
C17_PollsIffSentUnlessRestarted ==
    CycleOver =>
        IF SentValue(trace)
        THEN /\ ConfigPolled(trace)
             /\ IF RestartedInConfigWait
                THEN ~Did(trace, "wait", "reset")
                ELSE ResetPolled(trace)
        ELSE NotPolled(trace)

\* a cycle that sent the temperature alone, asked for the configuration, then
\* for the reset command, and went to sleep
C17_Witness ==
    /\ pc = "sleep"
    /\ Did(trace, "send", "V_TEMP")
    /\ ~Did(trace, "send", "V_HUM")
    /\ ConfigPolled(trace)
    /\ ResetPolled(trace)

\* ---------------------------------------------------------------- C18
\* what a restart leaves at the end of the trace
RestartTail == <<Ev("send", "V_STATUS", 0), Ev("jmp", "0", 0)>>

\* C18: a reset command with the payload true restarts the node at once, in the
\* middle of the cycle, before the watchdog tick and the sleep of that cycle; a
\* reset command with the payload false restarts nothing and leaves the state as
\* it was; every restart, by the watchdog or by the command, first sends
\* reset = false to the gateway and then restarts.
C18_ResetCommandRestartsAtOnce ==
    [][/\ Received(Message(2, "V_STATUS", 1))
          => /\ pc' = "setup"
             /\ trace' = trace \o RestartTail
             /\ ~Did(trace', "processReset", "continue")
             /\ ~Did(trace', "processReset", "restart")
             /\ ~Did(trace', "sleep", "ms")
             /\ ticks' = ticks
       /\ Received(Message(2, "V_STATUS", 0))
          => UNCHANGED <<globals, pc, trace>>
       /\ RestartStep
          => /\ Len(trace') >= 2
             /\ SubSeq(trace', Len(trace') - 1, Len(trace')) = RestartTail
             /\ Count(trace', "send", "V_STATUS") = 1
             /\ \/ Received(Message(2, "V_STATUS", 1))
                \/ ResetStep /\ ticks' = 72]_vars

\* restarted by the reset command in the reset wait of the fourth cycle
C18_Witness ==
    /\ pc = "setup"
    /\ lastMessage = Message(2, "V_STATUS", 1)
    /\ ticks = 3
    /\ Did(trace, "wait", "reset")
    /\ SubSeq(trace, Len(trace) - 1, Len(trace)) = RestartTail

\* ---------------------------------------------------------------- C19
\* the step is the interrupt that ends the low battery suspend
WakeStep == pc = "deepSleep" /\ pc' # "deepSleep"

\* C19: the interrupt that ends the low battery suspend does not restart the
\* node: the cycle goes on with batteryLowCpt = 0 and with the channel state,
\* the configuration and cycleCptReset as they were before the suspend, it reads
\* the probe, ticks the watchdog and sleeps for CYCLE_DURATION; the node suspends
\* again only after three more low readings in a row.
C19_WakeResumesCycle ==
    [][/\ WakeStep
          => /\ pc' = "processWeather"
             /\ ~Did(trace', "jmp", "0")
             /\ batteryLowCpt' = 0
             /\ UNCHANGED <<config, channels, cycleCptReset, batteryLowCpt>>
       /\ Has(trace, Ev("wake", "interrupt", 0)) /\ ResetStep /\ ticks' < 72
          => /\ pc' = "sleep"
             /\ Count(trace', "measure", "ok") + Count(trace', "measure", "failed") = 1
       /\ Has(trace, Ev("wake", "interrupt", 0)) /\ SleepStep
          => /\ trace' = Append(trace, Ev("sleep", "ms", CYCLE_DURATION))
             /\ batteryLowCpt' = 0
       /\ BatteryStep /\ RunEnded(lowRun)
          => /\ pc' # "deepSleep"
             /\ batteryLowCpt' <= 1
       /\ BatteryStep /\ pc' = "deepSleep"
          => /\ Len(lowRun') = 3
             /\ ~RunEnded(lowRun)
             /\ batteryLowCpt = 2]_vars

\* the fourth cycle after a boot was suspended for the low battery, woken, and
\* ran to its sleep
C19_Witness ==
    /\ CycleSlept
    /\ ticks = 4
    /\ cycleCptReset = 4
    /\ batteryLowCpt = 0
    /\ Has(trace, Ev("wake", "interrupt", 0))
    /\ Did(trace, "measure", "ok")
    /\ trace[Len(trace)] = Ev("sleep", "ms", CYCLE_DURATION)

====
